---- MODULE Spec2Model ----
(***************************************************************************)
(* A model of the addressing and flattening helpers of                     *)
(* brainstorm/utils.py: get_normalized_path, get_by_path, flatten_keys,    *)
(* flatten and convert_to_nested_indices.                                  *)
(*                                                                         *)
(* Encodings.                                                              *)
(*   - A Python string is a sequence of one-character strings:             *)
(*     'a.b' is <<"a", ".", "b">> and '' is <<>>.                          *)
(*   - An element of a nested list is a record: [leaf |-> v] for a value   *)
(*     that is no list or tuple, [items |-> s] for a list or tuple whose   *)
(*     elements are the sequence s.                                        *)
(*   - A value of a nested dict is [leaf |-> v] for a value that is no     *)
(*     dict and [dict |-> s] for a dict, s being the sequence of its       *)
(*     items [k |-> key, v |-> value] in iteration order, keys distinct.   *)
(***************************************************************************)
EXTENDS Integers, Sequences, FiniteSets, TLC

VARIABLES
    \* get_normalized_path
    args, pcN, path_parts, normalized_parts, npResult, npError,
    \* get_by_path and flatten_keys
    root, path, d, todo, pcD, gbResult, gbError, printed, fkResult,
    \* flatten and convert_to_nested_indices, run to completion
    container, pcS, flat, nested, reflat,
    \* convert_to_nested_indices, consumed step by step
    gen, heap

varsN == <<args, pcN, path_parts, normalized_parts, npResult, npError>>
varsD == <<root, path, d, todo, pcD, gbResult, gbError, printed, fkResult>>
varsS == <<container, pcS, flat, nested, reflat>>
varsG == <<gen, heap>>
vars == <<varsN, varsD, varsS, varsG>>

\* The parts of the state a specification does not use stay at these values.
IdleN ==
    /\ args = <<>> /\ pcN = "idle" /\ path_parts = <<>>
    /\ normalized_parts = <<>> /\ npResult = <<>> /\ npError = "none"
IdleD ==
    /\ root = [leaf |-> 0] /\ path = <<>> /\ d = [leaf |-> 0] /\ todo = <<>>
    /\ pcD = "idle" /\ gbResult = [leaf |-> 0] /\ gbError = "none"
    /\ printed = <<>> /\ fkResult = <<>>
IdleS ==
    /\ container = <<>> /\ pcS = "idle" /\ flat = <<>> /\ nested = <<>>
    /\ reflat = <<>>
IdleG ==
    /\ gen = <<>> /\ heap = <<>>

----------------------------------------------------------------------------
(* Bounds of the model. *)

\* get_normalized_path: the fragments of a call are cut out of at most this
\* many tokens, each one of "a", "b", ".", ".." and "@".
MaxTokens == 5

\* get_by_path, flatten_keys: dicts nested at most this deep.
MaxDictDepth == 2
\* get_by_path: paths of at most this many characters.
MaxPathLen == 3

\* flatten, convert_to_nested_indices: nested lists of at most this many
\* elements in all, counting the leaves and the lists at every level.
MaxNodes == 6

\* convert_to_nested_indices consumed step by step: nested lists of at most
\* this many elements in all.
MaxGenNodes == 3

Letters == {"a", "b"}

----------------------------------------------------------------------------
(* Python strings. *)

\* c in s, for a one-character c
Contains(s, c) == \E i \in 1..Len(s) : s[i] = c

\* s.startswith(c), for a one-character c
StartsWith(s, c) == Len(s) >= 1 /\ s[1] = c

RECURSIVE ReplaceDotDot(_)
\* s.replace('..', '@'): leftmost, non-overlapping occurrences
ReplaceDotDot(s) ==
    IF Len(s) = 0 THEN <<>>
    ELSE IF Len(s) >= 2 /\ s[1] = "." /\ s[2] = "."
         THEN <<"@">> \o ReplaceDotDot(SubSeq(s, 3, Len(s)))
         ELSE <<s[1]>> \o ReplaceDotDot(Tail(s))

RECURSIVE SplitDot(_)
\* s.split('.'): always at least one part, '' included
SplitDot(s) ==
    IF ~Contains(s, ".") THEN <<s>>
    ELSE LET i == CHOOSE j \in 1..Len(s) :
                      s[j] = "." /\ \A h \in 1..(j - 1) : s[h] # "."
         IN  <<SubSeq(s, 1, i - 1)>> \o SplitDot(SubSeq(s, i + 1, Len(s)))

RECURSIVE JoinDot(_)
\* ".".join(parts)
JoinDot(parts) ==
    IF Len(parts) = 0 THEN <<>>
    ELSE IF Len(parts) = 1 THEN parts[1]
         ELSE parts[1] \o <<".">> \o JoinDot(Tail(parts))

----------------------------------------------------------------------------
(* get_normalized_path, utils.py lines 120-134. *)

Tokens == {<<"a">>, <<"b">>, <<".">>, <<".", ".">>, <<"@">>}

RECURSIVE TokenStrings(_)
\* the strings made of exactly n tokens
TokenStrings(n) ==
    IF n = 0 THEN {<<>>}
    ELSE {t \o s : t \in Tokens, s \in TokenStrings(n - 1)}

RECURSIVE ExtendAll(_)
\* lines 121-124 without the assertion: path_parts after the first loop
ExtendAll(as) ==
    IF Len(as) = 0 THEN <<>>
    ELSE SplitDot(ReplaceDotDot(as[1])) \o ExtendAll(Tail(as))

\* line 123: assert '@' not in a, for every fragment
NoReservedChar(as) == \A i \in 1..Len(as) : ~Contains(as[i], "@")

\* line 126: assert '' not in path_parts
NoEmptyPart(parts) == \A i \in 1..Len(parts) : parts[i] # <<>>

\* PopAndPush with the loop of line 130 written as an `if`: one pop at most
PopAndPushOnce(st, p) ==
    IF StartsWith(p, "@")
    THEN IF Len(st) = 0
         THEN [raised |-> TRUE, stack |-> st]
         ELSE [raised |-> FALSE,
               stack |-> Append(SubSeq(st, 1, Len(st) - 1), Tail(p))]
    ELSE [raised |-> FALSE, stack |-> Append(st, p)]

RECURSIVE PopAndPush(_, _)
\* lines 130-133 for one part p on the stack st: one pop per leading '@',
\* then the append.  A pop from the empty list raises IndexError.
PopAndPush(st, p) ==
    IF StartsWith(p, "@")
    THEN IF Len(st) = 0
         THEN [raised |-> TRUE, stack |-> st]
         ELSE PopAndPush(SubSeq(st, 1, Len(st) - 1), Tail(p))
    ELSE [raised |-> FALSE, stack |-> Append(st, p)]

RECURSIVE ReduceParts(_, _)
\* lines 128-133: the second loop over path_parts, from the stack st
ReduceParts(st, parts) ==
    IF Len(parts) = 0 THEN [raised |-> FALSE, stack |-> st]
    ELSE LET r == PopAndPush(st, parts[1])
         IN  IF r.raised THEN r ELSE ReduceParts(r.stack, Tail(parts))

\* A call with up to three fragments, cut out of at most MaxTokens tokens.
InitN ==
    /\ \E m1 \in 0..MaxTokens :
         \E m2 \in 0..(MaxTokens - m1) :
           \E m3 \in 0..(MaxTokens - m1 - m2) :
             \E f1 \in TokenStrings(m1) :
               \E f2 \in TokenStrings(m2) :
                 \E f3 \in TokenStrings(m3) :
                   \E k \in 0..3 : args = SubSeq(<<f1, f2, f3>>, 1, k)
    /\ pcN = "collect"
    /\ path_parts = <<>>
    /\ normalized_parts = <<>>
    /\ npResult = <<>>
    /\ npError = "none"
    /\ IdleD /\ IdleS /\ IdleG

\* lines 121-126: the first loop and the two assertions
CollectParts ==
    /\ pcN = "collect"
    /\ IF NoReservedChar(args) /\ NoEmptyPart(ExtendAll(args))
       THEN /\ path_parts' = ExtendAll(args)
            /\ pcN' = "reduce"
            /\ npError' = npError
       ELSE /\ path_parts' = path_parts
            /\ pcN' = "raised"
            /\ npError' = "AssertionError"
    /\ UNCHANGED <<args, normalized_parts, npResult, varsD, varsS, varsG>>

\* lines 128-133: the second loop
Reduce ==
    /\ pcN = "reduce"
    /\ LET r == ReduceParts(<<>>, path_parts)
       IN  IF r.raised
           THEN /\ pcN' = "raised"
                /\ npError' = "IndexError"
                /\ normalized_parts' = normalized_parts
           ELSE /\ pcN' = "join"
                /\ npError' = npError
                /\ normalized_parts' = r.stack
    /\ UNCHANGED <<args, path_parts, npResult, varsD, varsS, varsG>>

\* line 134
ReturnJoined ==
    /\ pcN = "join"
    /\ npResult' = JoinDot(normalized_parts)
    /\ pcN' = "returned"
    /\ UNCHANGED <<args, path_parts, normalized_parts, npError,
                   varsD, varsS, varsG>>

NextN == CollectParts \/ Reduce \/ ReturnJoined

SpecN == InitN /\ [][NextN]_vars

----------------------------------------------------------------------------
(* Properties of get_normalized_path. *)

\* the positions of the separators of s
DotsOf(s) == {i \in 1..Len(s) : s[i] = "."}

\* the k-th cut of s: 0, then the separators from the left, then Len(s) + 1
CutOf(s, k) ==
    IF k = 0 THEN 0
    ELSE IF k = Cardinality(DotsOf(s)) + 1 THEN Len(s) + 1
         ELSE CHOOSE i \in DotsOf(s) :
                  Cardinality({j \in DotsOf(s) : j < i}) = k - 1

\* the dot-separated segments of s, read off the positions of its separators
SegmentsOf(s) ==
    [k \in 1..(Cardinality(DotsOf(s)) + 1) |->
        SubSeq(s, CutOf(s, k - 1) + 1, CutOf(s, k) - 1)]

\* a non-empty run of letters
IsIdentifier(seg) == Len(seg) >= 1 /\ \A i \in 1..Len(seg) : seg[i] \in Letters

\* CanonicalPath: not empty, neither starts nor ends with a separator, has no
\* two separators in a row (so no '..' and no empty segment) and no '@'
IsCanonicalPath(s) ==
    /\ Len(s) >= 1
    /\ s[1] # "." /\ s[Len(s)] # "."
    /\ \A i \in 1..(Len(s) - 1) : ~(s[i] = "." /\ s[i + 1] = ".")
    /\ ~Contains(s, "@")

\* C2: whenever get_normalized_path returns a path, for fragments without
\* '@', the path is a CanonicalPath: not empty, every dot-separated segment
\* non-empty, no '@' and no '..' left in it.
C2_ReturnedPathIsCanonical ==
    (pcN = "returned" /\ NoReservedChar(args)) => IsCanonicalPath(npResult)

RECURSIVE LeadingUps(_)
\* the number of '..' markers a fragment starts with
LeadingUps(a) ==
    IF Len(a) >= 2 /\ a[1] = "." /\ a[2] = "."
    THEN 1 + LeadingUps(SubSeq(a, 3, Len(a)))
    ELSE 0

\* the fragment after its leading markers
BodyOf(a) == SubSeq(a, 2 * LeadingUps(a) + 1, Len(a))

\* a dot-joined list of identifiers, after any number of leading markers
IsWellFormed(a) ==
    \A k \in 1..Len(SegmentsOf(BodyOf(a))) : IsIdentifier(SegmentsOf(BodyOf(a))[k])

RECURSIVE StackAfter(_, _)
\* The working stack of the claim: each fragment in turn pops one segment per
\* leading marker, whichever fragment pushed it, then pushes its segments.
StackAfter(st, as) ==
    IF Len(as) = 0 THEN [underflow |-> FALSE, stack |-> st]
    ELSE IF LeadingUps(as[1]) > Len(st) THEN [underflow |-> TRUE, stack |-> st]
         ELSE StackAfter(SubSeq(st, 1, Len(st) - LeadingUps(as[1]))
                             \o SegmentsOf(BodyOf(as[1])),
                         Tail(as))

\* s is the segments of st joined by the separator
IsJoinOf(s, st) == IF Len(st) = 0 THEN s = <<>> ELSE SegmentsOf(s) = st

FinishedN == pcN \in {"returned", "raised"}

\* C4: for fragments that are dot-joined identifiers after k >= 0 leading
\* '..' markers, one working stack serves the whole call: every marker pops
\* the most recent segment, also one of an earlier fragment, the fragment's
\* segments are pushed in order, and when no pop underflows the call returns
\* the final stack joined by '.'.
C4_OneStackAcrossFragments ==
    (FinishedN /\ \A i \in 1..Len(args) : IsWellFormed(args[i]))
        => LET r == StackAfter(<<>>, args)
           IN  ~r.underflow => (pcN = "returned" /\ IsJoinOf(npResult, r.stack))

\* C4 witness: a returned call whose later fragment popped a segment that an
\* earlier fragment pushed ('a.b', '..a' gives 'a.a').
C4_Witness ==
    /\ pcN = "returned"
    /\ args = << <<"a", ".", "b">>, <<".", ".", "a">> >>
    /\ npResult = <<"a", ".", "a">>

\* the call asked for a pop on an empty stack
Underflowed ==
    /\ pcN = "raised"
    /\ NoReservedChar(args)
    /\ NoEmptyPart(ExtendAll(args))

\* C5: an underflow fails with the error kind of the two assertions (reserved
\* character, empty segment) and returns no path.
C5_UnderflowIsSyntaxError ==
    Underflowed => (npError = "AssertionError" /\ npResult = <<>>)

----------------------------------------------------------------------------
(* Nested dicts: get_by_path (lines 99-117), flatten_keys (lines 156-177). *)

\* isinstance(v, dict)
IsDict(v) == "dict" \in DOMAIN v

\* the keys of the model's dicts, in the order a dict iterates them
KeyOrder == << <<"a">>, <<"b">> >>

\* the items of a dict that has the keys KeyOrder[i], i in ks, with values vs
ItemsOf(ks, vs) ==
    LET n == Cardinality(ks)
        nth(j) == CHOOSE i \in ks : Cardinality({h \in ks : h < i}) = j - 1
    IN  [j \in 1..n |-> [k |-> KeyOrder[nth(j)], v |-> vs[nth(j)]]]

RECURSIVE DictValues(_)
\* the values nested at most n dicts deep: the leaf, and every dict over a
\* subset of the keys whose values are nested at most n - 1 deep
DictValues(n) ==
    {[leaf |-> 1]} \cup
    (IF n = 0 THEN {}
     ELSE {[dict |-> ItemsOf(ks, vs)] :
              ks \in SUBSET (1..Len(KeyOrder)),
              vs \in [1..Len(KeyOrder) -> DictValues(n - 1)]})

RECURSIVE PathStrings(_)
\* the strings of exactly n characters over the letters and the separator
PathStrings(n) ==
    IF n = 0 THEN {<<>>}
    ELSE {<<c>> \o t : c \in Letters \cup {"."}, t \in PathStrings(n - 1)}

\* p in d, for a dict d
HasKey(dv, p) == \E i \in 1..Len(dv.dict) : dv.dict[i].k = p

\* d[p], for a dict d that has the key p
ValueOf(dv, p) ==
    dv.dict[CHOOSE i \in 1..Len(dv.dict) : dv.dict[i].k = p].v

\* PrefixAll that forgets the key and the separator: keys.append(x)
PrefixAllNoKey(k, xs) == xs

\* lines 173-174: k + '.' + x for every x of xs
PrefixAll(k, xs) == [i \in 1..Len(xs) |-> k \o <<".">> \o xs[i]]

RECURSIVE flatten_keys(_)
RECURSIVE KeysOfItems(_)
\* KeysOfItems that takes an empty dict for a terminal value, as a test
\* `isinstance(v, dict) and v` at line 172 would
KeysOfItemsEmptyIsLeaf(items) ==
    IF Len(items) = 0 THEN <<>>
    ELSE (IF IsDict(items[1].v) /\ Len(items[1].v.dict) > 0
          THEN PrefixAll(items[1].k, flatten_keys(items[1].v))
          ELSE <<items[1].k>>)
         \o KeysOfItems(Tail(items))

\* lines 170-177: the loop over dictionary.items()
KeysOfItems(items) ==
    IF Len(items) = 0 THEN <<>>
    ELSE (IF IsDict(items[1].v)
          THEN PrefixAll(items[1].k, flatten_keys(items[1].v))
          ELSE <<items[1].k>>)
         \o KeysOfItems(Tail(items))

\* lines 156-177
flatten_keys(dictionary) ==
    IF ~IsDict(dictionary) THEN <<>> ELSE KeysOfItems(dictionary.dict)

InitD ==
    /\ root \in DictValues(MaxDictDepth)
    /\ \E n \in 0..MaxPathLen : path \in PathStrings(n)
    /\ d = root
    /\ todo = <<>>
    /\ pcD = "start"
    /\ gbResult = [leaf |-> 0]
    /\ gbError = "none"
    /\ printed = <<>>
    /\ fkResult = <<>>
    /\ IdleN /\ IdleS /\ IdleG

\* line 111: path.split('.') is evaluated once, before the loop
GetByPathEnter ==
    /\ pcD = "start"
    /\ todo' = SplitDot(path)
    /\ pcD' = "walk"
    /\ UNCHANGED <<root, path, d, gbResult, gbError, printed, fkResult,
                   varsN, varsS, varsG>>

\* line 112, the key is there: d = d[p]
GetByPathStep ==
    /\ pcD = "walk" /\ Len(todo) > 0
    /\ IsDict(d) /\ HasKey(d, Head(todo))
    /\ d' = ValueOf(d, Head(todo))
    /\ todo' = Tail(todo)
    /\ UNCHANGED <<root, path, pcD, gbResult, gbError, printed, fkResult,
                   varsN, varsS, varsG>>

\* lines 112-116, the key is missing: the message is printed from the d the
\* loop has reached, and the KeyError is raised again
GetByPathKeyError ==
    /\ pcD = "walk" /\ Len(todo) > 0
    /\ IsDict(d) /\ ~HasKey(d, Head(todo))
    /\ printed' = Append(printed, [path |-> path, logs |-> flatten_keys(d)])
    /\ gbError' = "KeyError"
    /\ pcD' = "raised"
    /\ UNCHANGED <<root, path, d, todo, gbResult, fkResult,
                   varsN, varsS, varsG>>

\* line 112 on a value that is no dict: subscripting it raises TypeError,
\* which line 113 does not catch
GetByPathTypeError ==
    /\ pcD = "walk" /\ Len(todo) > 0
    /\ ~IsDict(d)
    /\ gbError' = "TypeError"
    /\ pcD' = "raised"
    /\ UNCHANGED <<root, path, d, todo, gbResult, printed, fkResult,
                   varsN, varsS, varsG>>

\* line 117
GetByPathReturn ==
    /\ pcD = "walk" /\ Len(todo) = 0
    /\ gbResult' = d
    /\ pcD' = "returned"
    /\ UNCHANGED <<root, path, d, todo, gbError, printed, fkResult,
                   varsN, varsS, varsG>>

\* a call of flatten_keys on the same argument
FlattenKeysCall ==
    /\ pcD = "start"
    /\ fkResult' = flatten_keys(root)
    /\ pcD' = "flattened"
    /\ UNCHANGED <<root, path, d, todo, gbResult, gbError, printed,
                   varsN, varsS, varsG>>

NextD ==
    \/ GetByPathEnter \/ GetByPathStep \/ GetByPathKeyError
    \/ GetByPathTypeError \/ GetByPathReturn \/ FlattenKeysCall

SpecD == InitD /\ [][NextD]_vars

----------------------------------------------------------------------------
(* Properties of get_by_path and flatten_keys. *)

SetOf(seq) == {seq[i] : i \in 1..Len(seq)}

FinishedD == pcD \in {"returned", "raised"}

\* C3: on a missing key, at whatever step of a canonical path, get_by_path
\* fails and its diagnostic carries the requested path and the valid paths of
\* the mapping the caller passed in.
C3_DiagnosticListsRootPaths ==
    (gbError = "KeyError" /\ IsCanonicalPath(path))
        => /\ pcD = "raised"
           /\ Len(printed) = 1
           /\ printed[1].path = path
           /\ SetOf(printed[1].logs) = SetOf(flatten_keys(root))

\* C7 as stated: the paths flatten_keys returns are exactly the paths that
\* get_by_path resolves without error.
C7_ListedIffResolved ==
    FinishedD => ((path \in SetOf(flatten_keys(root))) <=> (pcD = "returned"))

\* C7, amended: every path flatten_keys returns is resolved by get_by_path
\* without error, and every path get_by_path resolves without error to a
\* value that is not a mapping is among the paths flatten_keys returns.
C7_ListedIffResolvedToLeaf ==
    FinishedD =>
        /\ (path \in SetOf(flatten_keys(root))) => pcD = "returned"
        /\ (pcD = "returned" /\ ~IsDict(gbResult))
               => path \in SetOf(flatten_keys(root))

\* C7 witness: a two-segment path resolved to a terminal value.
C7_Witness ==
    /\ pcD = "returned"
    /\ path = <<"a", ".", "b">>
    /\ ~IsDict(gbResult)
    /\ path \in SetOf(flatten_keys(root))

RECURSIVE KeyChains(_)
\* the chains of exactly n keys
KeyChains(n) ==
    IF n = 0 THEN {<<>>}
    ELSE {<<KeyOrder[i]>> \o c : i \in 1..Len(KeyOrder), c \in KeyChains(n - 1)}

RECURSIVE Descend(_, _)
\* the value a chain of keys leads to from v, if every key on the way is there
Descend(v, ks) ==
    IF Len(ks) = 0 THEN [found |-> TRUE, value |-> v]
    ELSE IF IsDict(v) /\ HasKey(v, ks[1])
         THEN Descend(ValueOf(v, ks[1]), Tail(ks))
         ELSE [found |-> FALSE, value |-> v]

\* the key chains from v to a value that is not a mapping
TerminalChains(v) ==
    {c \in UNION {KeyChains(n) : n \in 1..(MaxDictDepth + 1)} :
        Descend(v, c).found /\ ~IsDict(Descend(v, c).value)}

\* C8: flatten_keys returns exactly the dot-joined key chains from the root
\* to a value that is not a mapping, each once; an empty mapping contributes
\* nothing and an argument that is no mapping gives the empty list.
C8_FlattenKeysIsTerminalChains ==
    pcD = "flattened"
        => /\ ~IsDict(root) => fkResult = <<>>
           /\ IsDict(root) =>
                 SetOf(fkResult) = {JoinDot(c) : c \in TerminalChains(root)}
           /\ \A i, j \in 1..Len(fkResult) : i # j => fkResult[i] # fkResult[j]

\* C8 witness: {'a': 1, 'b': {'a': 1, 'b': 1}} flattened to a, b.a, b.b.
C8_Witness ==
    /\ pcD = "flattened"
    /\ fkResult = << <<"a">>, <<"b", ".", "a">>, <<"b", ".", "b">> >>

----------------------------------------------------------------------------
(* Nested lists: flatten (lines 66-73), convert_to_nested_indices (76-85). *)

\* isinstance(i, (list, tuple))
IsList(i) == "items" \in DOMAIN i

\* the values of the leaves of the model's nested lists
LeafValues == {7, 8}

RECURSIVE Forests(_)
RECURSIVE Trees(_)
\* the elements that hold n elements in all, themselves included
Trees(n) ==
    IF n = 1 THEN {[leaf |-> v] : v \in LeafValues} \cup {[items |-> <<>>]}
    ELSE {[items |-> f] : f \in Forests(n - 1)}

\* the nested lists that hold n elements in all
Forests(n) ==
    IF n = 0 THEN {<<>>}
    ELSE UNION {{<<t>> \o f : t \in Trees(k), f \in Forests(n - k)} : k \in 1..n}

RECURSIVE flatten(_)
\* flatten that goes one level down only: `for j in i: yield j` at line 70
flattenOneLevel(c) ==
    IF Len(c) = 0 THEN <<>>
    ELSE (IF IsList(c[1]) THEN c[1].items ELSE <<c[1]>>)
         \o flatten(Tail(c))

\* lines 66-73, consumed to the end: the sequence of the values yielded
flatten(c) ==
    IF Len(c) = 0 THEN <<>>
    ELSE (IF IsList(c[1]) THEN flatten(c[1].items) ELSE <<c[1]>>)
         \o flatten(Tail(c))

RECURSIVE ConvertFrom(_, _)
\* ConvertFrom with the counter handed to the nested call by value: the
\* leaves numbered inside a nested list do not advance the caller's count
ConvertFromByValue(c, idx) ==
    IF Len(c) = 0 THEN [out |-> <<>>, idx |-> idx]
    ELSE LET first == IF IsList(c[1])
                      THEN [el |-> [items |-> ConvertFrom(c[1].items, idx).out],
                            idx |-> idx]
                      ELSE [el |-> [leaf |-> idx], idx |-> idx + 1]
             rest == ConvertFrom(Tail(c), first.idx)
         IN  [out |-> <<first.el>> \o rest.out, idx |-> rest.idx]

\* ConvertFrom that yields the indices of a nested list one by one instead
\* of as one list: `for j in convert_to_nested_indices(i, start_idx): yield j`
ConvertFromInline(c, idx) ==
    IF Len(c) = 0 THEN [out |-> <<>>, idx |-> idx]
    ELSE IF IsList(c[1])
         THEN LET r == ConvertFrom(c[1].items, idx)
                  rest == ConvertFrom(Tail(c), r.idx)
              IN  [out |-> r.out \o rest.out, idx |-> rest.idx]
         ELSE LET rest == ConvertFrom(Tail(c), idx + 1)
              IN  [out |-> <<[leaf |-> idx]>> \o rest.out, idx |-> rest.idx]

\* lines 80-85, consumed to the end, with start_idx[0] = idx on entry: the
\* values yielded (out) and start_idx[0] on exit (idx)
ConvertFrom(c, idx) ==
    IF Len(c) = 0 THEN [out |-> <<>>, idx |-> idx]
    ELSE LET first == IF IsList(c[1])
                      THEN LET r == ConvertFrom(c[1].items, idx)
                           IN  [el |-> [items |-> r.out], idx |-> r.idx]
                      ELSE [el |-> [leaf |-> idx], idx |-> idx + 1]
             rest == ConvertFrom(Tail(c), first.idx)
         IN  [out |-> <<first.el>> \o rest.out, idx |-> rest.idx]

\* lines 76-85 with start_idx left at None, consumed to the end
convert_to_nested_indices(c) == ConvertFrom(c, 0).out

InitS ==
    /\ \E n \in 0..MaxNodes : container \in Forests(n)
    /\ pcS = "start"
    /\ flat = <<>>
    /\ nested = <<>>
    /\ reflat = <<>>
    /\ IdleN /\ IdleD /\ IdleG

\* list(flatten(container))
CallFlatten ==
    /\ pcS = "start"
    /\ flat' = flatten(container)
    /\ pcS' = "flattened"
    /\ UNCHANGED <<container, nested, reflat, varsN, varsD, varsG>>

\* list(convert_to_nested_indices(container))
CallConvert ==
    /\ pcS = "flattened"
    /\ nested' = convert_to_nested_indices(container)
    /\ pcS' = "converted"
    /\ UNCHANGED <<container, flat, reflat, varsN, varsD, varsG>>

\* list(flatten(nested)), nested being the result of CallConvert
CallFlattenIndices ==
    /\ pcS = "converted"
    /\ reflat' = flatten(nested)
    /\ pcS' = "done"
    /\ UNCHANGED <<container, flat, nested, varsN, varsD, varsG>>

NextS == CallFlatten \/ CallConvert \/ CallFlattenIndices

SpecS == InitS /\ [][NextS]_vars

----------------------------------------------------------------------------
(* Properties of flatten and convert_to_nested_indices, run to completion. *)

RECURSIVE LeafPaths(_)
\* the positions of the leaves of c, each the indices that lead to the leaf
LeafPaths(c) ==
    UNION {IF IsList(c[i])
           THEN {<<i>> \o q : q \in LeafPaths(c[i].items)}
           ELSE {<<i>>} : i \in 1..Len(c)}

RECURSIVE ElementAt(_, _)
\* the element of c at a position
ElementAt(c, q) ==
    IF Len(q) = 1 THEN c[q[1]] ELSE ElementAt(c[q[1]].items, Tail(q))

\* position q comes before position r, depth first and left to right
Before(q, r) ==
    \E k \in 1..Len(q) :
        /\ k <= Len(r)
        /\ q[k] < r[k]
        /\ \A j \in 1..(k - 1) : q[j] = r[j]

\* the number a leaf position has in depth-first, left-to-right order
RankOf(c, q) == 1 + Cardinality({r \in LeafPaths(c) : Before(r, q)})

\* C6: flatten yields every leaf once, depth first and left to right, yields
\* no list, and ends; empty sub-lists add nothing.
C6_FlattenIsLeavesInOrder ==
    pcS # "start"
        => /\ Len(flat) = Cardinality(LeafPaths(container))
           /\ \A q \in LeafPaths(container) :
                  flat[RankOf(container, q)] = ElementAt(container, q)
           /\ \A i \in 1..Len(flat) : ~IsList(flat[i])

\* C6 witness: [[], [7, [8]], 7] flattened to 7, 8, 7.
C6_Witness ==
    /\ pcS = "flattened"
    /\ container = << [items |-> <<>>],
                      [items |-> << [leaf |-> 7], [items |-> << [leaf |-> 8] >>] >>],
                      [leaf |-> 7] >>
    /\ flat = << [leaf |-> 7], [leaf |-> 8], [leaf |-> 7] >>

\* C1: flattening the result of convert_to_nested_indices(c) gives
\* 0, 1, ..., N-1 in that order, N being the number of leaves flatten(c) yields.
C1_FlattenOfIndicesCounts ==
    pcS = "done" => reflat = [i \in 1..Len(flat) |-> [leaf |-> i - 1]]

\* C1 witness: [[8], [7, [8]]] gives [[0], [1, [2]]], flattened to 0, 1, 2.
C1_Witness ==
    /\ pcS = "done"
    /\ container = << [items |-> << [leaf |-> 8] >>],
                      [items |-> << [leaf |-> 7], [items |-> << [leaf |-> 8] >>] >>] >>
    /\ reflat = << [leaf |-> 0], [leaf |-> 1], [leaf |-> 2] >>

RECURSIVE SameShape(_, _)
\* out has a list where c has a list, of the same shape, and an integer
\* where c has a leaf
SameShape(c, out) ==
    /\ Len(out) = Len(c)
    /\ \A i \in 1..Len(c) :
           IF IsList(c[i])
           THEN IsList(out[i]) /\ SameShape(c[i].items, out[i].items)
           ELSE ~IsList(out[i]) /\ out[i].leaf \in Int

\* C10: convert_to_nested_indices(c) has the shape of c: as many elements at
\* every level, a list (empty ones included) exactly where c has a list, an
\* integer exactly where c has a leaf.
C10_SameShape ==
    pcS \in {"converted", "done"} => SameShape(container, nested)

\* C10 witness: [[], [7, [8]], 8] gives [[], [0, [1]], 2].
C10_Witness ==
    /\ pcS = "converted"
    /\ container = << [items |-> <<>>],
                      [items |-> << [leaf |-> 7], [items |-> << [leaf |-> 8] >>] >>],
                      [leaf |-> 8] >>
    /\ nested = << [items |-> <<>>],
                   [items |-> << [leaf |-> 0], [items |-> << [leaf |-> 1] >>] >>],
                   [leaf |-> 2] >>

----------------------------------------------------------------------------
(* convert_to_nested_indices (lines 76-85) as a generator: two consumers,   *)
(* each holding at most one generator at a time, call next() on their      *)
(* generators in any order, drop a generator that has ended and start a    *)
(* new invocation, any number of times.  heap holds the one-element lists  *)
(* that line 79 creates: heap[k].v is the element of the list in cell k,   *)
(* and heap[k].live says that the list exists.  A generator refers to its  *)
(* list by the cell; the list is freed when its generator has ended.       *)

Slots == {1, 2}

\* the arguments of the invocations: the leaves' values play no part
GenInputs ==
    UNION {{c \in Forests(n) :
               \A i \in 1..Len(flatten(c)) : flatten(c)[i].leaf = 7} :
           n \in 0..MaxGenNodes}

\* The list of a default argument `start_idx=[0]`: one list, made once, for
\* every invocation.
SharedCell(h) == 1

\* lines 78-79: start_idx = [0] is a new list, in the first free cell
NewCell(h) ==
    CHOOSE k \in 1..Len(h) : ~h[k].live /\ \A j \in 1..(k - 1) : h[j].live

\* line 79: the heap once the list of cell k exists; a new list holds 0
WithCell(h, k) ==
    IF h[k].live THEN h ELSE [h EXCEPT ![k] = [live |-> TRUE, v |-> 0]]

\* the heap with the list of cell k freed
Freed(h, k) == [h EXCEPT ![k] = [live |-> FALSE, v |-> 0]]

\* the cell generator g counts in: start_idx is bound when the body first runs
CellOf(g) == IF g.status = "created" THEN NewCell(heap) ELSE g.cell

\* The heap when generator g is resumed by next(): the first next() runs
\* lines 78-79, a next() after a leaf runs the pending line 85.
Resumed(g) ==
    IF g.status = "created" THEN WithCell(heap, CellOf(g))
    ELSE IF g.status = "after_leaf"
         THEN [heap EXCEPT ![g.cell].v = @ + 1]
         ELSE heap

Suspended(g) == g.status \in {"created", "after_leaf", "after_list"}

NoGen == [status |-> "none", c |-> <<>>, pos |-> 1, cell |-> 0, out |-> <<>>]

InitG ==
    /\ gen = [i \in Slots |-> NoGen]
    /\ heap = [k \in Slots |-> [live |-> FALSE, v |-> 0]]
    /\ IdleN /\ IdleD /\ IdleS

\* convert_to_nested_indices(c): the call creates the generator and runs
\* nothing of the body
Call(i, c) ==
    /\ gen[i].status = "none"
    /\ gen' = [gen EXCEPT ![i] =
                  [status |-> "created", c |-> c, pos |-> 1, cell |-> 0,
                   out |-> <<>>]]
    /\ UNCHANGED <<heap, varsN, varsD, varsS>>

\* next() reaching line 84: the element is a leaf, start_idx[0] is yielded
NextLeaf(i) ==
    LET g == gen[i]
    IN  /\ Suspended(g)
        /\ g.pos <= Len(g.c)
        /\ ~IsList(g.c[g.pos])
        /\ heap' = Resumed(g)
        /\ gen' = [gen EXCEPT ![i] =
                      [status |-> "after_leaf", c |-> g.c, pos |-> g.pos + 1,
                       cell |-> CellOf(g),
                       out |-> Append(g.out, [leaf |-> Resumed(g)[CellOf(g)].v])]]
        /\ UNCHANGED <<varsN, varsD, varsS>>

\* next() reaching line 82: the element is a list, the nested generator is
\* consumed to the end on the same start_idx and its list is yielded
NextList(i) ==
    LET g == gen[i]
        r == ConvertFrom(g.c[g.pos].items, Resumed(g)[CellOf(g)].v)
    IN  /\ Suspended(g)
        /\ g.pos <= Len(g.c)
        /\ IsList(g.c[g.pos])
        /\ heap' = [Resumed(g) EXCEPT ![CellOf(g)].v = r.idx]
        /\ gen' = [gen EXCEPT ![i] =
                      [status |-> "after_list", c |-> g.c, pos |-> g.pos + 1,
                       cell |-> CellOf(g),
                       out |-> Append(g.out, [items |-> r.out])]]
        /\ UNCHANGED <<varsN, varsD, varsS>>

\* next() running off the end of the loop of line 80: StopIteration, and the
\* generator's frame, the last holder of its list, is gone
NextStop(i) ==
    LET g == gen[i]
    IN  /\ Suspended(g)
        /\ g.pos > Len(g.c)
        /\ heap' = Freed(Resumed(g), CellOf(g))
        /\ gen' = [gen EXCEPT ![i] =
                      [status |-> "done", c |-> g.c, pos |-> g.pos,
                       cell |-> 0, out |-> g.out]]
        /\ UNCHANGED <<varsN, varsD, varsS>>

\* the consumer lets go of a generator that has ended
Drop(i) ==
    /\ gen[i].status = "done"
    /\ gen' = [gen EXCEPT ![i] = NoGen]
    /\ UNCHANGED <<heap, varsN, varsD, varsS>>

NextG ==
    \/ \E i \in Slots : \E c \in GenInputs : Call(i, c)
    \/ \E i \in Slots : Drop(i)
    \/ \E i \in Slots : NextLeaf(i)
    \/ \E i \in Slots : NextList(i)
    \/ \E i \in Slots : NextStop(i)

SpecG == InitG /\ [][NextG]_vars

\* C9: the counter belongs to one top-level invocation: however the next()
\* calls on two generators interleave, and however many invocations came
\* before, what an invocation has yielded is the start of what it yields when
\* run alone, all of it once it has ended, and its leaves count from 0.
C9_CounterIsPerInvocation ==
    \A i \in Slots :
        gen[i].status # "none"
            => LET alone == convert_to_nested_indices(gen[i].c)
                   seen == flatten(gen[i].out)
               IN  /\ Len(gen[i].out) <= Len(alone)
                   /\ gen[i].out = SubSeq(alone, 1, Len(gen[i].out))
                   /\ gen[i].status = "done" => gen[i].out = alone
                   /\ seen = [j \in 1..Len(seen) |-> [leaf |-> j - 1]]

\* C9 witness: two generators, each on a list of its own, are both part of
\* the way through, each having yielded 0 and [1], on different cells.
C9_Witness ==
    /\ \A i \in Slots :
           /\ gen[i].status = "after_list"
           /\ gen[i].out = << [leaf |-> 0], [items |-> << [leaf |-> 1] >>] >>
    /\ gen[1].cell # gen[2].cell
    /\ heap[gen[1].cell].v = 2 /\ heap[gen[2].cell].v = 2

====
